---- MODULE Spec2Model ----
(***************************************************************************)
(* A model of simscript/util.ts: assert, format (with its formatter        *)
(* cache), bind, setOptions, getElement, clamp and Point.distance.         *)
(*                                                                         *)
(* The utilities are independent, so each has its own specification over   *)
(* the shared variables: SpecOptions (setOptions, getElement, assert),     *)
(* SpecFormat (format), SpecBind (bind and the listeners it registers),    *)
(* SpecClamp (clamp) and SpecPoint (Point.distance).                       *)
(***************************************************************************)
EXTENDS Integers, Sequences, FiniteSets, TLC

VARIABLES
    call,           \* the operation last invoked, with its arguments
    ret,            \* <<>> while nothing was returned, else <<value>>
    thrown,         \* <<>> when the operation returned, else <<exception>>
    console,        \* what the operation in `call` wrote to console.error
    obj,            \* setOptions' target: member name -> member
    numberFormats,  \* _numberFormats: decimals -> formatter instance
    nfCreated,      \* how many Intl.NumberFormat instances were constructed
    controls,       \* the document's controls: id -> element state
    listeners,      \* id -> the 'input' listeners registered, in order
    after,          \* id -> the spans that follow the control, nearest first
    spanText,       \* span -> its textContent
    invoked         \* the onInput calls made by the event in `call`

vars == <<call, ret, thrown, console, obj, numberFormats, nfCreated,
          controls, listeners, after, spanText, invoked>>

optionVars == <<obj>>
formatVars == <<numberFormats, nfCreated>>
bindVars   == <<controls, listeners, after, spanText, invoked>>

(***************************************************************************)
(* Bounds of the model.                                                    *)
(***************************************************************************)
MaxHandlers == 1    \* handlers one event slot may hold
MaxDecimals == 3    \* format is called with decimals in 0..MaxDecimals
MaxBinds    == 2    \* bind calls per document
MaxIndex    == 2    \* a select has options 0..MaxIndex
ClampRange  == 15   \* clamp's arguments range over -ClampRange..ClampRange
CoordRange  == 2    \* point coordinates range over -CoordRange..CoordRange

NoCall == [op |-> "none"]

(***************************************************************************)
(* assert (util.ts 9-14).  The outcome of assert(condition, msg) on a      *)
(* console that already holds `con`: what the console holds afterwards and *)
(* what was thrown (<<>> when assert returned).                            *)
(***************************************************************************)
\* assertNoThrow reports and returns; assertSilent throws without reporting.
assertNoThrow(condition, msg, con) ==
    IF ~condition
    THEN [console |-> Append(con, msg), thrown |-> <<>>]
    ELSE [console |-> con, thrown |-> <<>>]

assertSilent(condition, msg, con) ==
    IF ~condition
    THEN [console |-> con, thrown |-> <<msg>>]
    ELSE [console |-> con, thrown |-> <<>>]

assert(condition, msg, con) ==
    IF ~condition
    THEN [console |-> Append(con, msg), thrown |-> <<msg>>]
    ELSE [console |-> con, thrown |-> <<>>]

(***************************************************************************)
(* setOptions (util.ts 91-102).                                            *)
(*                                                                         *)
(* A member of the target is a plain property holding a value or an Event  *)
(* holding its handlers.  The options argument is null, or an object given *)
(* by its <<key, value>> pairs in for-in order; its keys are distinct.     *)
(***************************************************************************)
Keys == {"a", "b", "c"}
OptValues == {"v1", "f"}

DataMember(v) == [kind |-> "data", v |-> v, handlers |-> <<>>]
EventMember(hs) == [kind |-> "event", v |-> "Event", handlers |-> hs]

Members == {DataMember("v0"), EventMember(<<>>)}
Targets == UNION {[D -> Members] : D \in SUBSET Keys}

Null == [null |-> TRUE]

RECURSIVE KeySeqs(_, _)
KeySeqs(S, n) ==
    IF n = 0 THEN {<<>>}
    ELSE {<<>>} \cup UNION {{<<k>> \o s : s \in KeySeqs(S \ {k}, n - 1)} : k \in S}

OptionsOver(ks) ==
    LET I == 1..Len(ks)
    IN  {[i \in I |-> <<ks[i], vf[i]>>] : vf \in [I -> OptValues]}

OptionObject(pairs) == [isNull |-> FALSE, pairs |-> pairs]
NullOptions == [isNull |-> TRUE, pairs |-> <<>>]

OptionObjects ==
    {OptionObject(ps) :
        ps \in UNION {OptionsOver(ks) : ks \in KeySeqs(Keys, Cardinality(Keys))}}

\* key in obj
HasKey(o, key) == key \in DOMAIN o

\* obj[key] instanceof Event
IsEvent(o, key) == HasKey(o, key) /\ o[key].kind = "event"

\* Event.addEventListener(handler): the handler joins the event's handlers
addEventListener(ev, handler) == EventMember(Append(ev.handlers, handler))

\* obj[key] = value: sets the property, creating it when it is missing
SetProperty(o, key, value) ==
    [k \in DOMAIN o \cup {key} |-> IF k = key THEN DataMember(value) ELSE o[k]]

PropertyMessage(key) == "Property " \o key \o " is not defined"

\* The body of the for-in loop after the assert (util.ts 95-99).
\* ApplyAssignOnly: the instanceof test is lost and every member is assigned.
ApplyAssignOnly(o, key, value) == SetProperty(o, key, value)

ApplyOption(o, key, value) ==
    IF IsEvent(o, key)
    THEN [o EXCEPT ![key] = addEventListener(o[key], value)]
    ELSE SetProperty(o, key, value)

\* The loop from the i-th pair on (util.ts 93-100).
RECURSIVE OptionsLoop(_, _, _, _)
OptionsLoop(o, options, i, con) ==
    IF i > Len(options)
    THEN [obj |-> o, console |-> con, thrown |-> <<>>]
    ELSE LET key == options[i][1]
             a == assert(HasKey(o, key), PropertyMessage(key), con)
         IN  IF a.thrown /= <<>>
             THEN [obj |-> o, console |-> a.console, thrown |-> a.thrown]
             ELSE OptionsLoop(ApplyOption(o, key, options[i][2]),
                              options, i + 1, a.console)

\* all keys are validated before any is applied
setOptionsAtomic(o, options) ==
    LET ps == options.pairs
        bad == {i \in 1..Len(ps) : ~HasKey(o, ps[i][1])}
    IN  IF options.isNull \/ bad = {}
        THEN OptionsLoop(o, ps, 1, <<>>)
        ELSE LET i == CHOOSE i \in bad : \A j \in bad : i <= j
             IN  [obj |-> o, console |-> <<PropertyMessage(ps[i][1])>>,
                  thrown |-> <<PropertyMessage(ps[i][1])>>]

setOptions(o, options) ==
    IF ~options.isNull
    THEN OptionsLoop(o, options.pairs, 1, <<>>)
    ELSE [obj |-> o, console |-> <<>>, thrown |-> <<>>]

HandlersWithin(o) == \A k \in DOMAIN o : Len(o[k].handlers) <= MaxHandlers

SetOptions(options) ==
    LET r == setOptions(obj, options)
    IN  /\ HandlersWithin(r.obj)
        /\ call' = [op |-> "setOptions", options |-> options]
        /\ obj' = r.obj
        /\ console' = r.console
        /\ thrown' = r.thrown
        /\ ret' = <<>>
        /\ UNCHANGED <<formatVars, bindVars>>

(***************************************************************************)
(* getElement (util.ts 109-115).  A selector is a string, resolved by      *)
(* document.querySelector, or any other value, taken as it is.             *)
(***************************************************************************)
Element(name) == [element |-> name]
IsElement(e) == DOMAIN e = {"element"}
NotAnElement == [jquery |-> TRUE]

\* document.querySelector over a document whose only match is "#sim"
querySelector(s) == IF s = "#sim" THEN Element("sim") ELSE Null

Selectors ==
    {[text |-> "#sim", isString |-> TRUE,  value |-> Null],
     [text |-> "#zz",  isString |-> TRUE,  value |-> Null],
     [text |-> "[object HTMLDivElement]", isString |-> FALSE, value |-> Element("div")],
     [text |-> "[object Object]", isString |-> FALSE, value |-> NotAnElement],
     [text |-> "null", isString |-> FALSE, value |-> Null]}

getElement(selector) ==
    LET e == IF selector.isString THEN querySelector(selector.text)
             ELSE selector.value
        a == assert(IsElement(e), "Element not found:" \o selector.text, <<>>)
    IN  [console |-> a.console, thrown |-> a.thrown,
         ret |-> IF a.thrown = <<>> THEN <<e>> ELSE <<>>]

GetElement(selector) ==
    LET r == getElement(selector)
    IN  /\ call' = [op |-> "getElement", selector |-> selector]
        /\ console' = r.console
        /\ thrown' = r.thrown
        /\ ret' = r.ret
        /\ UNCHANGED <<optionVars, formatVars, bindVars>>

InitIdle ==
    /\ call = NoCall
    /\ ret = <<>>
    /\ thrown = <<>>
    /\ console = <<>>

InitNoOptions == obj = <<>>
InitNoFormat == numberFormats = <<>> /\ nfCreated = 0
InitNoBind ==
    /\ controls = <<>>
    /\ listeners = <<>>
    /\ after = <<>>
    /\ spanText = <<>>
    /\ invoked = <<>>

InitOptions ==
    /\ InitIdle
    /\ obj \in Targets
    /\ InitNoFormat
    /\ InitNoBind

NextOptions ==
    \/ \E options \in OptionObjects \cup {NullOptions} : SetOptions(options)
    \/ \E selector \in Selectors : GetElement(selector)

SpecOptions == InitOptions /\ [][NextOptions]_vars

(***************************************************************************)
(* Properties of setOptions, getElement and assert.                        *)
(***************************************************************************)
IsSetOptionsCall(c) == c.op = "setOptions"
OptionKeys(ps) == {ps[i][1] : i \in 1..Len(ps)}
UnknownAt(o, ps) == {i \in 1..Len(ps) : ps[i][1] \notin DOMAIN o}
FirstUnknown(o, ps) == CHOOSE i \in UnknownAt(o, ps) : \A j \in UnknownAt(o, ps) : i <= j

\* the pairs the loop reaches before it ends or fails
Processed(o, ps) ==
    IF UnknownAt(o, ps) = {} THEN 1..Len(ps) ELSE 1..(FirstUnknown(o, ps) - 1)

\* member `key` of `o2` is what the dispatch on member `key` of `o` makes of it
Dispatched(o, o2, key, value) ==
    /\ key \in DOMAIN o2
    /\ IF o[key].kind = "event"
       THEN /\ o2[key].kind = "event"
            /\ o2[key].handlers = Append(o[key].handlers, value)
       ELSE o2[key] = DataMember(value)

\* C1: a setOptions call whose options hold a key that is not a member of the
\* target fails: the message naming the first such key is reported and
\* thrown, and no unknown key has become a member of the target.
C1_UnknownKeyFails ==
    [][(IsSetOptionsCall(call') /\ UnknownAt(obj, call'.options.pairs) /= {}) =>
         LET ps == call'.options.pairs
             msg == PropertyMessage(ps[FirstUnknown(obj, ps)][1])
         IN  /\ thrown' = <<msg>>
             /\ console' = <<msg>>
             /\ \A k \in OptionKeys(ps) \ DOMAIN obj : k \notin DOMAIN obj'
             /\ DOMAIN obj' = DOMAIN obj]_vars

C1_Witness ==
    /\ IsSetOptionsCall(call)
    /\ \E i \in 1..Len(call.options.pairs) :
          /\ call.options.pairs[i][1] \notin DOMAIN obj
          /\ thrown = <<PropertyMessage(call.options.pairs[i][1])>>
          /\ console = thrown

\* C2: every key setOptions processes is dispatched on the kind of the member
\* it names: an event slot gets the value as one more handler and stays an
\* event slot, any other member is assigned the value; so after a call that
\* returns, obj[key] is options[key] for every key that named no event slot.
C2_DispatchOnMemberKind ==
    [][IsSetOptionsCall(call') =>
         LET ps == call'.options.pairs
         IN  /\ \A i \in Processed(obj, ps) : Dispatched(obj, obj', ps[i][1], ps[i][2])
             /\ thrown' = <<>> =>
                  \A i \in 1..Len(ps) :
                     obj[ps[i][1]].kind /= "event" => obj'[ps[i][1]].v = ps[i][2]]_vars

C2_Witness ==
    /\ IsSetOptionsCall(call)
    /\ thrown = <<>>
    /\ \E i, j \in 1..Len(call.options.pairs) :
          LET ps == call.options.pairs
          IN  /\ obj[ps[i][1]].kind = "event"
              /\ obj[ps[i][1]].handlers = <<ps[i][2]>>
              /\ obj[ps[j][1]] = DataMember(ps[j][2])
              /\ ps[j][2] = "v1"

\* C9: when the condition of an assert is false, its message is reported on
\* the console and thrown to the caller, and the caller's statements after
\* the assert do not run (getElement returns nothing; setOptions applies
\* neither the failing key nor any later one); when every condition holds,
\* nothing is reported, nothing is thrown and the caller carries on.
C9_AssertReportsAndThrows ==
    [][/\ call'.op = "getElement" =>
            LET sel == call'.selector
                e == IF sel.isString THEN querySelector(sel.text) ELSE sel.value
                msg == "Element not found:" \o sel.text
            IN  /\ ~IsElement(e) => (console' = <<msg>> /\ thrown' = <<msg>> /\ ret' = <<>>)
                /\ IsElement(e) => (console' = <<>> /\ thrown' = <<>> /\ ret' = <<e>>)
                /\ obj' = obj
       /\ IsSetOptionsCall(call') =>
            LET ps == call'.options.pairs
                bad == UnknownAt(obj, ps)
            IN  /\ bad /= {} =>
                   LET n == FirstUnknown(obj, ps)
                       msg == PropertyMessage(ps[n][1])
                   IN  /\ console' = <<msg>>
                       /\ thrown' = <<msg>>
                       /\ \A i \in n..Len(ps) :
                             IF ps[i][1] \in DOMAIN obj
                             THEN obj'[ps[i][1]] = obj[ps[i][1]]
                             ELSE ps[i][1] \notin DOMAIN obj'
                /\ bad = {} => (console' = <<>> /\ thrown' = <<>>)]_vars

C9_Witness ==
    /\ call.op = "getElement"
    /\ ~call.selector.isString
    /\ thrown = <<"Element not found:[object Object]">>
    /\ console = thrown
    /\ ret = <<>>

\* C10: setOptions applies its keys one at a time, in order: when it fails
\* on an unknown key, the keys before it are applied and stay applied, the
\* keys after it are not applied and every other member is as it was; with
\* null options it changes nothing and does not fail.
C10_NotAtomic ==
    [][IsSetOptionsCall(call') =>
         LET ps == call'.options.pairs
             done == Processed(obj, ps)
         IN  /\ call'.options.isNull => (obj' = obj /\ thrown' = <<>> /\ console' = <<>>)
             /\ \A i \in done : Dispatched(obj, obj', ps[i][1], ps[i][2])
             /\ DOMAIN obj' = DOMAIN obj
             /\ \A k \in DOMAIN obj : k \notin {ps[i][1] : i \in done} => obj'[k] = obj[k]
             /\ UnknownAt(obj, ps) /= {} => thrown' /= <<>>]_vars

C10_Witness ==
    /\ IsSetOptionsCall(call)
    /\ Len(call.options.pairs) = 3
    /\ LET ps == call.options.pairs
       IN  /\ thrown = <<PropertyMessage(ps[2][1])>>
           /\ ps[2][1] \notin DOMAIN obj
           /\ ps[1][1] \in DOMAIN obj
           /\ ps[3][1] \in DOMAIN obj
           /\ obj[ps[1][1]] = DataMember("v1")
           /\ ps[3][2] = "v1"
           /\ obj[ps[3][1]] = DataMember("v0")

(***************************************************************************)
(* format and _getNumberFormat (util.ts 23-37).                            *)
(*                                                                         *)
(* A formatter is an Intl.NumberFormat instance: its identity (the order   *)
(* of construction) and the options it was constructed with.  Values are   *)
(* non-negative and given in tenths (12345 is 1234.5); the text is what    *)
(* Intl.NumberFormat produces for the locale en-US.                        *)
(***************************************************************************)
DefaultDecimals == 2

NumberFormat(id, decimals) ==
    [id |-> id, useGrouping |-> TRUE,
     minimumFractionDigits |-> decimals, maximumFractionDigits |-> decimals]

Pad3(n) ==
    IF n < 10 THEN "00" \o ToString(n)
    ELSE IF n < 100 THEN "0" \o ToString(n)
    ELSE ToString(n)

RECURSIVE Grouped(_)
Grouped(n) ==
    IF n < 1000 THEN ToString(n)
    ELSE Grouped(n \div 1000) \o "," \o Pad3(n % 1000)

RECURSIVE Zeros(_)
Zeros(n) == IF n <= 0 THEN "" ELSE "0" \o Zeros(n - 1)

\* Intl.NumberFormat.prototype.format: grouping, and exactly the formatter's
\* fraction digits, rounding half away from zero
nfFormat(nf, tenths) ==
    LET d == nf.maximumFractionDigits
    IN  IF d = 0
        THEN Grouped((tenths + 5) \div 10)
        ELSE Grouped(tenths \div 10) \o "." \o ToString(tenths % 10) \o Zeros(d - 1)

\* a formatter is constructed on every call, and replaces the entry
getNumberFormatNoCache(formats, created, decimals) ==
    LET nf == NumberFormat(created + 1, decimals)
    IN  [nf |-> nf, formats |-> (decimals :> nf) @@ formats, created |-> created + 1]

\* _getNumberFormat(decimals) on the cache `formats`, `created` formatters
\* having been constructed so far
getNumberFormat(formats, created, decimals) ==
    IF decimals \notin DOMAIN formats
    THEN LET nf == NumberFormat(created + 1, decimals)
         IN  [nf |-> nf, formats |-> (decimals :> nf) @@ formats,
              created |-> created + 1]
    ELSE [nf |-> formats[decimals], formats |-> formats, created |-> created]

\* the decimals parameter: <<>> when the argument is left out
Decimals(arg) == IF arg = <<>> THEN DefaultDecimals ELSE arg[1]

FormatValues == {0, 5, 12345, 9999995}
DecimalsArgs == {<<>>} \cup {<<d>> : d \in 0..MaxDecimals}

Format(value, decimals) ==
    LET g == getNumberFormat(numberFormats, nfCreated, Decimals(decimals))
    IN  /\ call' = [op |-> "format", value |-> value, decimals |-> decimals]
        /\ numberFormats' = g.formats
        /\ nfCreated' = g.created
        /\ ret' = <<[text |-> nfFormat(g.nf, value), nf |-> g.nf]>>
        /\ UNCHANGED <<thrown, console, optionVars, bindVars>>

InitFormat ==
    /\ InitIdle
    /\ InitNoOptions
    /\ InitNoFormat
    /\ InitNoBind

NextFormat ==
    \E value \in FormatValues, decimals \in DecimalsArgs : Format(value, decimals)

SpecFormat == InitFormat /\ [][NextFormat]_vars

\* C3: the cache holds one formatter per decimals value: a format call with
\* decimals d constructs a formatter only when the cache has none for d, uses
\* the cached one otherwise, and leaves every entry of the cache in place.
C3_OneFormatterPerDecimals ==
    [][call'.op = "format" =>
         LET d == Decimals(call'.decimals)
         IN  /\ \A k \in DOMAIN numberFormats :
                   k \in DOMAIN numberFormats' /\ numberFormats'[k] = numberFormats[k]
             /\ DOMAIN numberFormats' = DOMAIN numberFormats \cup {d}
             /\ ret'[1].nf = numberFormats'[d]
             /\ numberFormats'[d].maximumFractionDigits = d
             /\ nfCreated' = IF d \in DOMAIN numberFormats THEN nfCreated
                             ELSE nfCreated + 1
             /\ Cardinality(DOMAIN numberFormats') = nfCreated'
             /\ \A j, k \in DOMAIN numberFormats' :
                   numberFormats'[j].id = numberFormats'[k].id => j = k]_vars

C3_Witness ==
    /\ call.op = "format"
    /\ Cardinality(DOMAIN numberFormats) >= 2
    /\ ret[1].nf.id < nfCreated
    /\ ret[1].nf = numberFormats[Decimals(call.decimals)]

\* the text of some values, as Intl.NumberFormat('en-US') gives it
FormatExamples ==
    /\ nfFormat(NumberFormat(1, 2), 12345) = "1,234.50"
    /\ nfFormat(NumberFormat(1, 0), 12345) = "1,235"
    /\ nfFormat(NumberFormat(1, 3), 9999995) = "999,999.500"
    /\ nfFormat(NumberFormat(1, 1), 5) = "0.5"
    /\ nfFormat(NumberFormat(1, 0), 0) = "0"

(***************************************************************************)
(* bind (util.ts 47-83).                                                   *)
(*                                                                         *)
(* JavaScript values carry their type: true is not "true", 42 is not "42". *)
(* An element is its tag, its type and the properties bind reads and       *)
(* writes.  The document holds two controls, "a" and "b"; the spans that   *)
(* follow a control are kept nearest first, and a span is named by the     *)
(* order of its creation.                                                  *)
(***************************************************************************)
JSBool(b) == [t |-> "boolean", b |-> b]
JSNum(n) == [t |-> "number", n |-> n]
JSStr(x) == [t |-> "string", s |-> x]
NaN == [t |-> "number", nan |-> TRUE]

Kinds == <<"checkbox", "select", "number", "range", "text">>

NewControl(kind) ==
    [tag |-> IF kind = "select" THEN "select" ELSE "input",
     type |-> IF kind = "select" THEN "select-one" ELSE kind,
     checked |-> FALSE,
     selectedIndex |-> IF kind = "select" THEN 0 ELSE -1,
     value |-> CASE kind = "checkbox" -> "on"
                 [] kind = "select" -> "opt0"
                 [] kind = "range" -> "50"
                 [] OTHER -> ""]

\* the value of a select whose i-th option is selected
OptionValue(i) == IF i \in 0..MaxIndex THEN "opt" \o ToString(i) ELSE ""

\* input.checked = v
SetChecked(input, v) == [input EXCEPT !.checked = v.b]

\* select.selectedIndex = v: an index that names no option selects none
SetSelectedIndex(input, v) ==
    LET i == IF v.n \in 0..MaxIndex THEN v.n ELSE -1
    IN  [input EXCEPT !.selectedIndex = i, !.value = OptionValue(i)]

\* input.valueAsNumber = v: a range control keeps its value within its min
\* and max, 0 and 100 unless the markup says otherwise
SetValueAsNumber(input, v) ==
    LET n == IF input.type = "range"
             THEN (IF v.n < 0 THEN 0 ELSE IF v.n > 100 THEN 100 ELSE v.n)
             ELSE v.n
    IN  [input EXCEPT !.value = ToString(n)]

\* input.value = v
SetValue(input, v) == [input EXCEPT !.value = v.s]

\* the numbers a control of the model can hold
NumberTexts == {0, 7, 42, 50, 100, 150}

\* input.valueAsNumber: the number the value spells, NaN when it spells none
\* or the control is not numeric
ValueAsNumber(input) ==
    IF /\ input.type \in {"number", "range"}
       /\ \E n \in NumberTexts : ToString(n) = input.value
    THEN JSNum(CHOOSE n \in NumberTexts : ToString(n) = input.value)
    ELSE NaN

\* util.ts 49-51
IsCheck(input) == input.type = "checkbox"
IsNumber(input) == input.type = "range" \/ input.type = "number"
IsSelect(input) == input.tag = "select"

\* util.ts 54-62
SetInitialValue(input, initialValue) ==
    IF IsCheck(input) THEN SetChecked(input, initialValue)
    ELSE IF IsSelect(input) THEN SetSelectedIndex(input, initialValue)
    ELSE IF IsNumber(input) THEN SetValueAsNumber(input, initialValue)
    ELSE SetValue(input, initialValue)

\* util.ts 69 and 75
LabelText(input, suffix) == " " \o input.value \o suffix

\* the value is read as text whatever the control
ListenerValueAsText(l, input) ==
    IF l.isCheck THEN JSBool(input.checked)
    ELSE IF l.isSelect THEN JSNum(input.selectedIndex)
    ELSE JSStr(input.value)

\* util.ts 77-80
ListenerValue(l, input) ==
    IF l.isCheck THEN JSBool(input.checked)
    ELSE IF l.isSelect THEN JSNum(input.selectedIndex)
    ELSE IF l.isNumber THEN ValueAsNumber(input)
    ELSE JSStr(input.value)

\* the label is written once, by bind, and never again
RunListenerStaleLabel(l, input, texts, calls) ==
    [texts |-> texts,
     calls |-> Append(calls, [onInput |-> l.onInput, value |-> ListenerValue(l, input)])]

\* One run of the listener bind registered (util.ts 73-82): `texts` are the
\* spans' texts and `calls` the onInput calls made so far.
RunListener(l, input, texts, calls) ==
    [texts |-> IF l.span /= <<>>
               THEN [texts EXCEPT ![l.span[1]] = LabelText(input, l.suffix)]
               ELSE texts,
     calls |-> Append(calls, [onInput |-> l.onInput, value |-> ListenerValue(l, input)])]

\* dispatchEvent: the listeners of the control run in the order of registration
RECURSIVE DispatchInput(_, _, _, _, _)
DispatchInput(ls, i, input, texts, calls) ==
    IF i > Len(ls) THEN [texts |-> texts, calls |-> calls]
    ELSE LET r == RunListener(ls[i], input, texts, calls)
         IN  DispatchInput(ls, i + 1, input, r.texts, r.calls)

\* bind(id, initialValue, onInput, suffix) on the document `doc`
bind(doc, id, initialValue, onInput, suffix) ==
    IF id \notin DOMAIN doc.controls
    THEN [doc EXCEPT !.thrown = <<"TypeError">>]
    ELSE LET input == SetInitialValue(doc.controls[id], initialValue)
             span == IF input.type = "range" THEN <<Len(doc.spanText) + 1>> ELSE <<>>
             l == [isCheck |-> IsCheck(doc.controls[id]),
                   isNumber |-> IsNumber(doc.controls[id]),
                   isSelect |-> IsSelect(doc.controls[id]),
                   span |-> span, onInput |-> onInput, suffix |-> suffix,
                   initialValue |-> initialValue]
         IN  [controls |-> [doc.controls EXCEPT ![id] = input],
              after |-> IF span /= <<>>
                        THEN [doc.after EXCEPT ![id] = span \o @]
                        ELSE doc.after,
              spanText |-> IF span /= <<>>
                           THEN Append(doc.spanText, LabelText(input, suffix))
                           ELSE doc.spanText,
              listeners |-> [doc.listeners EXCEPT ![id] = Append(@, l)],
              thrown |-> <<>>]

ControlIds == {"a", "b"}
BindIds == ControlIds \cup {"nope"}
Callbacks == {"f", "g"}
Suffixes == {"", "%"}

InitialValues(input) ==
    IF IsCheck(input) THEN {JSBool(TRUE), JSBool(FALSE)}
    ELSE IF IsSelect(input) THEN {JSNum(MaxIndex), JSNum(MaxIndex + 1)}
    ELSE IF IsNumber(input) THEN {JSNum(7), JSNum(150)}
    ELSE {JSStr("abc"), JSStr("7")}

\* what the user can make of a control
UserChanges(input) ==
    IF IsCheck(input) THEN {[input EXCEPT !.checked = ~input.checked]}
    ELSE IF IsSelect(input)
    THEN {[input EXCEPT !.selectedIndex = i, !.value = OptionValue(i)] : i \in {0, MaxIndex}}
    ELSE IF input.type = "range"
    THEN {[input EXCEPT !.value = x] : x \in {"0", "100"}}
    ELSE IF input.type = "number"
    THEN {[input EXCEPT !.value = x] : x \in {"", "42"}}
    ELSE {[input EXCEPT !.value = x] : x \in {"", "7"}}

Registered == Len(listeners["a"]) + Len(listeners["b"])

Bind(id, initialValue, onInput, suffix) ==
    LET r == bind([controls |-> controls, after |-> after, spanText |-> spanText,
                   listeners |-> listeners, thrown |-> thrown],
                  id, initialValue, onInput, suffix)
    IN  /\ Registered < MaxBinds
        /\ call' = [op |-> "bind", id |-> id, initialValue |-> initialValue,
                    onInput |-> onInput, suffix |-> suffix]
        /\ controls' = r.controls
        /\ after' = r.after
        /\ spanText' = r.spanText
        /\ listeners' = r.listeners
        /\ thrown' = r.thrown
        /\ invoked' = <<>>
        /\ UNCHANGED <<ret, console, optionVars, formatVars>>

\* the user changes control `id` and the browser dispatches its input event
Input(id, changed) ==
    LET r == DispatchInput(listeners[id], 1, changed, spanText, <<>>)
    IN  /\ call' = [op |-> "input", id |-> id]
        /\ controls' = [controls EXCEPT ![id] = changed]
        /\ spanText' = r.texts
        /\ invoked' = r.calls
        /\ thrown' = <<>>
        /\ UNCHANGED <<listeners, after, ret, console, optionVars, formatVars>>

InitBind ==
    /\ InitIdle
    /\ InitNoOptions
    /\ InitNoFormat
    /\ \E k \in 1..Len(Kinds) :
          controls = [id \in ControlIds |->
                         IF id = "a" THEN NewControl(Kinds[k])
                         ELSE NewControl(Kinds[(k % Len(Kinds)) + 1])]
    /\ listeners = [id \in ControlIds |-> <<>>]
    /\ after = [id \in ControlIds |-> <<>>]
    /\ spanText = <<>>
    /\ invoked = <<>>

NextBind ==
    \/ \E id \in ControlIds, onInput \in Callbacks, suffix \in Suffixes :
          \E initialValue \in InitialValues(controls[id]) :
             Bind(id, initialValue, onInput, suffix)
    \/ \E onInput \in Callbacks : Bind("nope", JSBool(TRUE), onInput, "")
    \/ \E id \in ControlIds : \E changed \in UserChanges(controls[id]) :
          Input(id, changed)

SpecBind == InitBind /\ [][NextBind]_vars

(***************************************************************************)
(* Properties of bind.                                                     *)
(***************************************************************************)
\* the current value of a control, by the kind of the control
CurrentValue(input) ==
    CASE input.type = "checkbox" -> JSBool(input.checked)
      [] input.tag = "select" -> JSNum(input.selectedIndex)
      [] input.type \in {"number", "range"} -> ValueAsNumber(input)
      [] OTHER -> JSStr(input.value)

\* C4: an input event on a control runs every listener bind registered on
\* it, and each calls its onInput exactly once, with the value of the control
\* at the event: checked for a checkbox, selectedIndex for a select, the
\* number for a number or range control, the text otherwise.
C4_OnInputGetsCurrentValue ==
    [][call'.op = "input" =>
         LET id == call'.id
         IN  /\ listeners' = listeners
             /\ Len(invoked') = Len(listeners[id])
             /\ \A i \in 1..Len(invoked') :
                   invoked'[i] = [onInput |-> listeners[id][i].onInput,
                                  value |-> CurrentValue(controls'[id])]]_vars

C4_Witness ==
    /\ call.op = "input"
    /\ controls[call.id].type = "checkbox"
    /\ ~controls[call.id].checked
    /\ Len(listeners[call.id]) = 1
    /\ listeners[call.id][1].initialValue = JSBool(TRUE)
    /\ invoked = <<[onInput |-> listeners[call.id][1].onInput, value |-> JSBool(FALSE)]>>

\* what bind and the listeners do about labels, the text of a label being
\* `lead`, then the control's value, then the suffix
LabelKeptInSync(lead) ==
    /\ (call'.op = "bind" /\ thrown' = <<>>) =>
          LET id == call'.id
              new == Len(spanText) + 1
              l == listeners'[id][Len(listeners'[id])]
          IN  IF controls'[id].type = "range"
              THEN /\ Len(spanText') = new
                   /\ after'[id] = <<new>> \o after[id]
                   /\ l.span = <<new>>
                   /\ spanText'[new] = lead \o controls'[id].value \o call'.suffix
                   /\ \A n \in 1..Len(spanText) : spanText'[n] = spanText[n]
              ELSE /\ spanText' = spanText
                   /\ after' = after
                   /\ l.span = <<>>
    /\ call'.op = "input" =>
          LET ls == listeners[call'.id]
          IN  /\ Len(spanText') = Len(spanText)
              /\ after' = after
              /\ \A i \in 1..Len(ls) :
                    ls[i].span /= <<>> =>
                       spanText'[ls[i].span[1]] =
                          lead \o controls'[call'.id].value \o ls[i].suffix

\* C5 as stated: bind creates a label if and only if the control is a range
\* slider; the label is inserted right after the control and shows the
\* control's value followed by the suffix, after bind and after every input
\* event.
C5_LabelIsValueAndSuffix == [][LabelKeptInSync("")]_vars

\* C5 as amended: the same, the label's text being a space, then the
\* control's value, then the suffix.
C5_LabelIsSpaceValueAndSuffix == [][LabelKeptInSync(" ")]_vars

C5_Witness ==
    /\ call.op = "input"
    /\ controls[call.id].type = "range"
    /\ controls[call.id].value = "100"
    /\ \E i \in 1..Len(listeners[call.id]) :
          LET l == listeners[call.id][i]
          IN  /\ l.suffix = "%"
              /\ l.span /= <<>>
              /\ spanText[l.span[1]] = " 100%"
              /\ after[call.id][1] = l.span[1]

(***************************************************************************)
(* clamp (util.ts 125-129).  A bound is a number or null.                  *)
(***************************************************************************)
\* the upper bound is forgotten
clampLowerOnly(value, min, max) ==
    IF min /= Null /\ value.n < min.n THEN min ELSE value

\* the null tests are lost, and a null bound compares as 0
clampNullAsZero(value, min, max) ==
    LET lo == IF min = Null THEN 0 ELSE min.n
        hi == IF max = Null THEN 0 ELSE max.n
    IN  IF value.n < lo THEN min
        ELSE IF value.n > hi THEN max
        ELSE value

clamp(value, min, max) ==
    IF min /= Null /\ value.n < min.n THEN min
    ELSE IF max /= Null /\ value.n > max.n THEN max
    ELSE value

ClampNumbers == {JSNum(n) : n \in (0 - ClampRange)..ClampRange}
ClampBounds == ClampNumbers \cup {Null}

Clamp ==
    /\ call.op = "clamp"
    /\ ret = <<>>
    /\ ret' = <<clamp(call.value, call.min, call.max)>>
    /\ UNCHANGED <<call, thrown, console, optionVars, formatVars, bindVars>>

InitClamp ==
    /\ \E value \in ClampNumbers, min \in ClampBounds, max \in ClampBounds :
          call = [op |-> "clamp", value |-> value, min |-> min, max |-> max]
    /\ ret = <<>>
    /\ thrown = <<>>
    /\ console = <<>>
    /\ InitNoOptions
    /\ InitNoFormat
    /\ InitNoBind

NextClamp == Clamp

SpecClamp == InitClamp /\ [][NextClamp]_vars

ClampReturned == call.op = "clamp" /\ ret /= <<>>
ClampCall(value, min, max) == [op |-> "clamp", value |-> value, min |-> min, max |-> max]

\* C6 as stated: with min and max both given, the result lies between them.
C6_ResultWithinBounds ==
    (ClampReturned /\ call.min /= Null /\ call.max /= Null) =>
        (ret[1].n >= call.min.n /\ ret[1].n <= call.max.n)

\* C6 as amended: with min and max both given and min <= max, the result
\* lies between them.
C6_ResultWithinOrderedBounds ==
    (ClampReturned /\ call.min /= Null /\ call.max /= Null
        /\ call.min.n <= call.max.n) =>
        (ret[1].n >= call.min.n /\ ret[1].n <= call.max.n)

C6_Witness ==
    /\ ClampReturned
    /\ call.min /= Null /\ call.max /= Null
    /\ call.min.n < call.max.n
    /\ call.value.n > call.max.n
    /\ ret[1] = call.max

\* C7: a null bound is no bound: the result is min when min is given and the
\* value is below it; else max when max is given and the value is above it;
\* else the value.  So clamp(5, 0, 10) = 5, clamp(-5, 0, 10) = 0,
\* clamp(15, null, 10) = 10 and clamp(5, null, null) = 5.
C7_NullIsNoBound ==
    ClampReturned =>
        LET below == call.min /= Null /\ call.value.n < call.min.n
            above == call.max /= Null /\ call.value.n > call.max.n
        IN  /\ below => ret[1] = call.min
            /\ (~below /\ above) => ret[1] = call.max
            /\ (~below /\ ~above) => ret[1] = call.value
            /\ call = ClampCall(JSNum(5), JSNum(0), JSNum(10)) => ret[1] = JSNum(5)
            /\ call = ClampCall(JSNum(-5), JSNum(0), JSNum(10)) => ret[1] = JSNum(0)
            /\ call = ClampCall(JSNum(15), Null, JSNum(10)) => ret[1] = JSNum(10)
            /\ call = ClampCall(JSNum(5), Null, Null) => ret[1] = JSNum(5)

C7_Witness ==
    /\ call = ClampCall(JSNum(15), Null, JSNum(10))
    /\ ret = <<JSNum(10)>>

(***************************************************************************)
(* Point.distance (util.ts 158-163).  A point-like value has x, y and,     *)
(* when it is not <<>>, z.  The square root is kept as the number it is    *)
(* the root of.                                                            *)
(***************************************************************************)
Sqrt(n) == [sqrtOf |-> n]
Squared(r) == r.sqrtOf

\* a number or undefined, as a condition
Truthy(z) == z /= <<>> /\ z[1] /= 0

\* p1.z || 0 - p2.z || 0, which is p1.z || (0 - p2.z) || 0
Dz(p1, p2) ==
    IF Truthy(p1.z) THEN p1.z[1]
    ELSE IF Truthy(p2.z) THEN 0 - p2.z[1]
    ELSE 0

distance(p1, p2) ==
    LET dx == p1.x - p2.x
        dy == p1.y - p2.y
        dz == Dz(p1, p2)
    IN  Sqrt(dx * dx + dy * dy + dz * dz)

Coords == (0 - CoordRange)..CoordRange
Points == [x : Coords, y : Coords, z : {<<>>} \cup {<<n>> : n \in Coords}]

Distance ==
    /\ call.op = "distance"
    /\ ret = <<>>
    /\ ret' = <<distance(call.p1, call.p2)>>
    /\ UNCHANGED <<call, thrown, console, optionVars, formatVars, bindVars>>

InitPoint ==
    /\ \E p1 \in Points, p2 \in Points : call = [op |-> "distance", p1 |-> p1, p2 |-> p2]
    /\ ret = <<>>
    /\ thrown = <<>>
    /\ console = <<>>
    /\ InitNoOptions
    /\ InitNoFormat
    /\ InitNoBind

NextPoint == Distance

SpecPoint == InitPoint /\ [][NextPoint]_vars

\* p.z or 0
ZOrZero(p) == IF p.z = <<>> THEN 0 ELSE p.z[1]

SquaredEuclidean(p1, p2) ==
    (p1.x - p2.x) * (p1.x - p2.x) + (p1.y - p2.y) * (p1.y - p2.y)
        + (ZOrZero(p1) - ZOrZero(p2)) * (ZOrZero(p1) - ZOrZero(p2))

\* C8: distance is the Euclidean distance, a missing z counting as 0: its
\* square is the sum of the squared differences of x, y and z, and the
\* distance from p1 to p2 is the distance from p2 to p1.
C8_DistanceIsEuclidean ==
    (call.op = "distance" /\ ret /= <<>>) =>
        /\ Squared(ret[1]) = SquaredEuclidean(call.p1, call.p2)
        /\ ret[1] = distance(call.p2, call.p1)

====
